---------------------------- MODULE Spec2Model ----------------------------
(***************************************************************************)
(* Model of the stem tagging engine of Audiowave                           *)
(*   src/src/workers/tagging/tag_stems.py                                  *)
(*   src/src/workers/tagging/label_map.py                                  *)
(*                                                                         *)
(* Conventions.  Scores, stereo widths, correlations and onset strengths   *)
(* are integers in thousandths (0.15 is 150, 1.0 is 1000).  Centroids are  *)
(* in Hz.  Labels and tag names are the strings of the source.  A Python   *)
(* dict is a sequence of <<key, value>> pairs in insertion order, which is *)
(* the order Python iterates it in.  None is the string NoneVal.           *)
(***************************************************************************)
EXTENDS Integers, Sequences, FiniteSets, TLC

VARIABLES
  pc,               \* position of the running function
  path,             \* tag_stem: the path argument
  global_sidechain, \* tag_stem: the global_sidechain argument
  stem_type,        \* tag_stem: stem type derived from the file name
  y,                \* tag_stem: the loaded waveform (length and envelope spectrum)
  centroid,         \* tag_stem: spectral centroid in Hz
  width,            \* tag_stem: stereo width
  characteristics,  \* tag_stem: analyze_stem_characteristics result
  preds,            \* tag_stem: thresholded classifier predictions
  i,                \* map_audioset_to_coarse_stem_aware: index of the next prediction
  coarse,           \* tag_stem: the tag dict under construction
  result,           \* tag_stem: the returned StemAnalysis
  tags,             \* smart_confidence_calibration: the tags argument
  calibrated,       \* smart_confidence_calibration: the returned dict
  content_tags,     \* separate_meta_content_tags: first returned dict
  meta_tags,        \* separate_meta_content_tags: second returned dict
  clip_dir,         \* tag_clip_folder: the clip directory, stem file name -> entry
  at,               \* tag_clip_folder: the classifier instance
  summed_audio,     \* detect_global_sidechain: the running sum
  global_sc,        \* tag_clip_folder: (global_sc_bool, global_sc_strength, global_sc_freq)
  k,                \* index of the next stem file in the loop being run
  results,          \* tag_clip_folder: the results list
  out_json,         \* the documents written to out_json, one per completed run
  exc,              \* the exception that ended the run, NoneVal if none
  mix_env,          \* what the envelope analysis of the clip's summed stems yields
  events            \* tag_clip_folder: what the run has done so far, in order

stemVars == <<path, global_sidechain, stem_type, y, centroid, width,
              characteristics, preds, i, coarse, result>>
calVars  == <<tags, calibrated, content_tags, meta_tags>>
clipVars == <<clip_dir, at, summed_audio, global_sc, k, results, out_json,
              exc, mix_env, events>>
vars     == <<pc, stemVars, calVars, clipVars>>

NoneVal == "<None>"

(***************************************************************************)
(* Bounds of the model                                                     *)
(***************************************************************************)
MaxRanked == 2   \* classifier outputs considered per stem
MaxTags == 2     \* entries of the dict given to smart_confidence_calibration

(***************************************************************************)
(* Module constants of tag_stems.py                                        *)
(***************************************************************************)
DEFAULT_TOPK == 8
MIN_SCORE == 180
TOP_K_TAGS == 3
CONTENT_MIN_SCORE == 150
SR == 32000

(***************************************************************************)
(* Strings: str.lower() and the substring test `a in b`                    *)
(***************************************************************************)
UpperChars == "ABCDEFGHIJKLMNOPQRSTUVWXYZ"
LowerChars == "abcdefghijklmnopqrstuvwxyz"

LowerChar(c) ==
  IF \E n \in 1..26 : SubSeq(UpperChars, n, n) = c
  THEN LET n == CHOOSE n \in 1..26 : SubSeq(UpperChars, n, n) = c
       IN  SubSeq(LowerChars, n, n)
  ELSE c

RECURSIVE Lower(_)
Lower(s) ==
  IF Len(s) = 0 THEN ""
  ELSE LowerChar(SubSeq(s, 1, 1)) \o Lower(SubSeq(s, 2, Len(s)))

\* Python's `key in s` for strings
Contains(key, s) ==
  \E n \in 1..(Len(s) - Len(key) + 1) : SubSeq(s, n, n + Len(key) - 1) = key

\* pathlib's Path(p).stem: the final component without its last suffix
PathName(p) ==
  LET seps == {n \in 1..Len(p) : SubSeq(p, n, n) = "/"}
  IN  IF seps = {} THEN p
      ELSE SubSeq(p, (CHOOSE n \in seps : \A m \in seps : m <= n) + 1, Len(p))

PathStem(p) ==
  LET name == PathName(p)
      dots == {n \in 2..Len(name) : SubSeq(name, n, n) = "."}
  IN  IF dots = {} THEN name
      ELSE SubSeq(name, 1, (CHOOSE n \in dots : \A m \in dots : m <= n) - 1)

(***************************************************************************)
(* Python dicts as insertion-ordered sequences of <<key, value>>           *)
(***************************************************************************)
Keys(d) == {d[n][1] : n \in 1..Len(d)}
Has(d, key) == \E n \in 1..Len(d) : d[n][1] = key
Get(d, key, dflt) ==
  IF Has(d, key) THEN d[CHOOSE n \in 1..Len(d) : d[n][1] = key][2] ELSE dflt
Put(d, key, v) ==
  IF Has(d, key)
  THEN [n \in 1..Len(d) |-> IF d[n][1] = key THEN <<key, v>> ELSE d[n]]
  ELSE Append(d, <<key, v>>)

Max(a, b) == IF a >= b THEN a ELSE b
Min(a, b) == IF a <= b THEN a ELSE b
Take(s, n) == SubSeq(s, 1, Min(n, Len(s)))

(***************************************************************************)
(* label_map.py: the vocabulary and the ordered tables                     *)
(***************************************************************************)
COARSE_TAGS ==
  { "kick", "snare", "hi-hat", "clap", "perc_loop",
    "sub_808", "reese", "synth_bass", "slap_bass",
    "piano", "rhodes", "organ", "bell", "pluck",
    "vox", "vox_lead", "vox_rap", "vox_harmony",
    "riser", "impact", "vinyl_noise",
    "sidechain_pump", "stereo_wide" }

STOP_LABELS == { "music" }

DRUM_LABELS ==
  << <<"kick drum", "kick">>,
     <<"bass drum", "kick">>,
     <<"kick", "kick">>,
     <<"snare drum", "snare">>,
     <<"snare", "snare">>,
     <<"hi-hat", "hi-hat">>,
     <<"hi hat", "hi-hat">>,
     <<"hihat", "hi-hat">>,
     <<"cymbal", "hi-hat">>,
     <<"ride cymbal", "hi-hat">>,
     <<"crash cymbal", "hi-hat">>,
     <<"tom-tom", "perc_loop">>,
     <<"clap", "clap">>,
     <<"hand clap", "clap">>,
     <<"thunk", "perc_loop">>,
     <<"percussion", "perc_loop">>,
     <<"drum machine", "perc_loop">> >>

INSTRUMENT_LABELS ==
  << <<"organ", "organ">>,
     <<"hammond organ", "organ">>,
     <<"electronic organ", "organ">>,
     <<"piano", "piano">>,
     <<"electric piano", "rhodes">>,
     <<"rhodes", "rhodes">>,
     <<"harpsichord", "bell">>,
     <<"bell", "bell">>,
     <<"glockenspiel", "bell">>,
     <<"acoustic guitar", "pluck">>,
     <<"electric guitar", "pluck">>,
     <<"violin", "lead">>,
     <<"cello", "lead">>,
     <<"strings", "lead">>,
     <<"synthesizer", "pluck">>,
     <<"sampler", "pluck">>,
     <<"singing", "vox_lead">>,
     <<"synthetic singing", "vox_lead">>,
     <<"choir", "vox_harmony">>,
     <<"vocal", "vox">>,
     <<"a capella", "vox_lead">>,
     <<"speech", "vox_rap">>,
     <<"rap", "vox_rap">>,
     <<"chant", "vox_harmony">>,
     <<"electric bass", "synth_bass">>,
     <<"bass guitar", "synth_bass">>,
     <<"synth bass", "synth_bass">>,
     <<"808", "sub_808">>,
     <<"sub", "sub_808">>,
     <<"sub bass", "sub_808">> >>

\* A key written twice in the dict literal ("synthesizer", "electronic") keeps
\* the position of its first occurrence and the value of its last.
AUDIOSET_TO_COARSE ==
  << <<"drum", "perc_loop">>,
     <<"drum kit", "perc_loop">>,
     <<"snare drum", "snare">>,
     <<"snare", "snare">>,
     <<"bass drum", "kick">>,
     <<"kick drum", "kick">>,
     <<"kick", "kick">>,
     <<"hi-hat", "hi-hat">>,
     <<"hi hat", "hi-hat">>,
     <<"hihat", "hi-hat">>,
     <<"cymbal", "hi-hat">>,
     <<"ride cymbal", "hi-hat">>,
     <<"crash cymbal", "hi-hat">>,
     <<"tom-tom", "perc_loop">>,
     <<"clap", "clap">>,
     <<"hand clap", "clap">>,
     <<"thunk", "perc_loop">>,
     <<"percussion", "perc_loop">>,
     <<"drum machine", "perc_loop">>,
     <<"electric bass", "synth_bass">>,
     <<"bass guitar", "synth_bass">>,
     <<"synth bass", "synth_bass">>,
     <<"808", "sub_808">>,
     <<"sub", "sub_808">>,
     <<"sub bass", "sub_808">>,
     <<"bass", "synth_bass">>,
     <<"low frequency", "synth_bass">>,
     <<"piano", "piano">>,
     <<"electric piano", "rhodes">>,
     <<"rhodes", "rhodes">>,
     <<"organ", "organ">>,
     <<"hammond organ", "organ">>,
     <<"electronic organ", "organ">>,
     <<"musical instrument", "organ">>,
     <<"keyboard (musical)", "piano">>,
     <<"harpsichord", "bell">>,
     <<"bell", "bell">>,
     <<"glockenspiel", "bell">>,
     <<"acoustic guitar", "pluck">>,
     <<"electric guitar", "pluck">>,
     <<"violin", "lead">>,
     <<"cello", "lead">>,
     <<"strings", "lead">>,
     <<"synthesizer", "synth_pad">>,
     <<"sampler", "synth_pad">>,
     <<"electronic", "synth_pad">>,
     <<"electronic music", "synth_pad">>,
     <<"melody", "saw_lead">>,
     <<"lead", "saw_lead">>,
     <<"pad", "synth_pad">>,
     <<"atmosphere", "synth_pad">>,
     <<"ambient", "synth_pad">>,
     <<"texture", "synth_pad">>,
     <<"singing", "vox_lead">>,
     <<"synthetic singing", "vox_lead">>,
     <<"choir", "vox_harmony">>,
     <<"vocal", "vox">>,
     <<"a capella", "vox_lead">>,
     <<"speech", "vox_lead">>,
     <<"rap", "vox_rap">>,
     <<"chant", "vox_harmony">>,
     <<"reverberation", "vinyl_noise">>,
     <<"echo", "vinyl_noise">>,
     <<"chorus effect", "vinyl_noise">>,
     <<"distortion", "impact">>,
     <<"overdrive", "impact">>,
     <<"saturation", "impact">>,
     <<"techno", "synth_pad">>,
     <<"house", "synth_pad">>,
     <<"trance", "synth_pad">>,
     <<"ambient music", "synth_pad">>,
     <<"keyboard", "synth_pad">>,
     <<"synthesizer (musical)", "synth_pad">> >>


(***************************************************************************)
(* tag_stems.py: the feature extractors, on the measured quantities        *)
(***************************************************************************)

\* tag_stem, lines 308-316: the stem type from the file name
StemTypeOf(p) ==
  LET stem_name == Lower(PathStem(p))
  IN  IF Contains("drum", stem_name) THEN "drums"
      ELSE IF Contains("bass", stem_name) THEN "bass"
      ELSE IF Contains("vocal", stem_name) THEN "vocals"
      ELSE "other"

\* A stereo file as sf.read sees it: the channel count, whether each channel
\* is constant, and the correlation of left and right (thousandths).
StereoWidthEstimate(data) ==
  IF data.channels < 2 THEN 0
  ELSE IF data.l_flat \/ data.r_flat THEN 0
  ELSE 1000 - Max(Min(data.corr, 1000), -1000)

\* analyze_stem_characteristics: the rhythm analysis may raise, and then the
\* fixed defaults are used.  rolloff and zero_crossing are never read.
AnalyzeStemCharacteristics(f) ==
  IF f.rhythm.raises
  THEN [centroid |-> f.centroid, tempo |-> 120000, onset_strength |-> 0]
  ELSE [centroid |-> f.centroid, tempo |-> f.rhythm.tempo,
        onset_strength |-> f.rhythm.onset_strength]

\* tag_stem, lines 329-331: top 32 of the ranked classifier output, those at
\* or above MIN_SCORE, at most DEFAULT_TOPK of them.
AtLeastMinScore(p) == p[2] >= MIN_SCORE
TopPreds(ranked) == Take(SelectSeq(Take(ranked, 32), AtLeastMinScore), DEFAULT_TOPK)

(***************************************************************************)
(* detect_sidechain_pump.  A waveform is its length in samples, whether    *)
(* its mean-removed RMS envelope is numerically constant, and the          *)
(* periodogram of that envelope: a sequence of <<frequency in mHz, power>>,*)
(* powers in units of 1e-9 so that `+ 1e-9` is `+ 1`.                      *)
(***************************************************************************)
\* variant: the window reaches 5 Hz
InBand_Wide(fp) == fp[1] >= 500 /\ fp[1] <= 5000

\* line 41
InBand(fp) == fp[1] >= 500 /\ fp[1] <= 4000

\* np.argmax: the first index holding the maximum
ArgMax(s) == CHOOSE n \in 1..Len(s) :
               /\ \A m \in 1..Len(s) : s[m][2] <= s[n][2]
               /\ \A m \in 1..(n - 1) : s[m][2] < s[n][2]

\* the n-th smallest power of s
NthSmallest(s, n) ==
  CHOOSE v \in {s[m][2] : m \in 1..Len(s)} :
    /\ Cardinality({m \in 1..Len(s) : s[m][2] < v}) < n
    /\ Cardinality({m \in 1..Len(s) : s[m][2] <= v}) >= n

\* twice np.median (the mean of the two middle values when the count is even)
Median2(s) ==
  IF Len(s) % 2 = 1 THEN 2 * NthSmallest(s, (Len(s) + 1) \div 2)
  ELSE NthSmallest(s, Len(s) \div 2) + NthSmallest(s, Len(s) \div 2 + 1)

\* variant: the threshold on the prominence is 1.2
DetectSidechainPump_Low(wave, sr) ==
  IF wave.n < sr THEN <<FALSE, 0, NoneVal>>
  ELSE IF wave.flat THEN <<FALSE, 0, NoneVal>>
  ELSE LET band == SelectSeq(wave.pxx, InBand)
       IN  IF band = <<>> THEN <<FALSE, 0, NoneVal>>
           ELSE LET peak_idx   == ArgMax(band)
                    peak_power == band[peak_idx][2]
                    peak_freq  == band[peak_idx][1]
                    med2       == Median2(band) + 2
                    prominence == (2000 * peak_power) \div med2
                IN  << 20 * peak_power > 12 * med2,
                       Min(prominence, 100000),
                       peak_freq >>

\* returns <<detected, min(prominence, 100), peak frequency>>
DetectSidechainPump(wave, sr) ==
  IF wave.n < sr THEN <<FALSE, 0, NoneVal>>
  ELSE IF wave.flat THEN <<FALSE, 0, NoneVal>>
  ELSE LET band == SelectSeq(wave.pxx, InBand)
       IN  IF band = <<>> THEN <<FALSE, 0, NoneVal>>
           ELSE LET peak_idx   == ArgMax(band)
                    peak_power == band[peak_idx][2]
                    peak_freq  == band[peak_idx][1]
                    med2       == Median2(band) + 2
                    prominence == (2000 * peak_power) \div med2
                IN  << 2 * peak_power > 12 * med2,
                       Min(prominence, 100000),
                       peak_freq >>

\* 1000 * 10^(n/10) for n = 0..20, rounded up
Pow10Tenths ==
  << 1000, 1259, 1585, 1996, 2512, 3163, 3982, 5012, 6310, 7944, 10000,
     12590, 15849, 19953, 25119, 31623, 39811, 50119, 63096, 79433, 100000 >>

\* np.log10 of a value in thousandths, in thousandths, rounded down to a tenth
RECURSIVE Log10(_)
Log10(x) ==
  IF x <= 0 THEN -9000
  ELSE IF x < 1000 THEN Log10(x * 10) - 1000
  ELSE IF x > 100000 THEN Log10(x \div 10) + 1000
  ELSE 100 * ((CHOOSE n \in 1..21 :
                 /\ Pow10Tenths[n] <= x
                 /\ \A m \in (n + 1)..21 : Pow10Tenths[m] > x) - 1)

\* min(1.0, 0.2 + np.log10(prominence + 1e-9)), lines 348 and 428
SidechainStrength(prom) == Min(1000, 200 + Log10(prom))

(***************************************************************************)
(* map_audioset_to_coarse_stem_aware and map_keyword_to_tag                *)
(***************************************************************************)
\* variant: the drums list with "drum" moved to the front
STEM_KEYWORDS_DrumFirst(st) ==
  CASE st = "drums"  -> <<"drum", "kick", "snare", "hi-hat", "percussion",
                          "cymbal", "clap", "thunk">>
    [] st = "bass"   -> <<"bass", "808", "sub", "low frequency", "electric bass">>
    [] st = "vocals" -> <<"singing", "speech", "vocal", "rap", "choir", "chant">>
    [] st = "other"  -> <<"synthesizer", "piano", "organ", "guitar", "strings",
                          "melody", "pad">>
    [] OTHER         -> << >>

STEM_KEYWORDS(st) ==
  CASE st = "drums"  -> <<"kick", "snare", "hi-hat", "drum", "percussion",
                          "cymbal", "clap", "thunk">>
    [] st = "bass"   -> <<"bass", "808", "sub", "low frequency", "electric bass">>
    [] st = "vocals" -> <<"singing", "speech", "vocal", "rap", "choir", "chant">>
    [] st = "other"  -> <<"synthesizer", "piano", "organ", "guitar", "strings",
                          "melody", "pad">>
    [] OTHER         -> << >>

map_keyword_to_tag(keyword0, st) ==
  LET keyword == Lower(keyword0)
  IN  CASE st = "drums" ->
             IF Contains("kick", keyword) THEN "kick"
             ELSE IF Contains("snare", keyword) THEN "snare"
             ELSE IF \/ Contains("hi-hat", keyword)
                     \/ Contains("hi hat", keyword)
                     \/ Contains("cymbal", keyword) THEN "hi-hat"
             ELSE IF Contains("clap", keyword) THEN "clap"
             ELSE "perc_loop"
        [] st = "bass" ->
             IF Contains("808", keyword) \/ Contains("sub", keyword) THEN "sub_808"
             ELSE IF Contains("bass", keyword) THEN "synth_bass"
             ELSE "synth_bass"
        [] st = "vocals" ->
             IF Contains("rap", keyword) THEN "vox_rap"
             ELSE IF Contains("singing", keyword) THEN "vox_lead"
             ELSE IF Contains("choir", keyword) \/ Contains("chant", keyword)
                  THEN "vox_harmony"
             ELSE "vox"
        [] st = "other" ->
             IF Contains("piano", keyword) THEN "piano"
             ELSE IF Contains("organ", keyword) THEN "organ"
             ELSE IF Contains("guitar", keyword) THEN "pluck"
             ELSE IF Contains("strings", keyword) THEN "lead"
             ELSE IF Contains("synthesizer", keyword) \/ Contains("synth", keyword)
                  THEN "synth_pad"
             ELSE "synth_pad"
        [] OTHER -> NoneVal

\* lines 123-127: the first keyword of the list that occurs in the label
KeywordMapped(lab_l, st) ==
  LET keywords == STEM_KEYWORDS(st)
      hits     == {n \in 1..Len(keywords) : Contains(keywords[n], lab_l)}
  IN  IF hits = {} THEN NoneVal
      ELSE map_keyword_to_tag(keywords[CHOOSE n \in hits : \A m \in hits : n <= m], st)

\* variant: the last matching entry of the table wins
FirstMatch_Last(table, lab_l) ==
  LET hits == {n \in 1..Len(table) : Contains(table[n][1], lab_l)}
  IN  IF hits = {} THEN NoneVal
      ELSE table[CHOOSE n \in hits : \A m \in hits : n >= m][2]

\* `for key, coarse in TABLE.items(): if key in lab_l: ...; break`
FirstMatch(table, lab_l) ==
  LET hits == {n \in 1..Len(table) : Contains(table[n][1], lab_l)}
  IN  IF hits = {} THEN NoneVal
      ELSE table[CHOOSE n \in hits : \A m \in hits : n <= m][2]

\* variant: plain assignment, out[tag] = score
MaxInto_Overwrite(out, tag, score) == Put(out, tag, score)

\* out[tag] = max(out.get(tag, 0.0), float(score))
MaxInto(out, tag, score) == Put(out, tag, Max(Get(out, tag, 0), score))

\* The tag one prediction resolves to (NoneVal if it contributes none):
\* lines 117-168, one pass of the loop body.
MappedTag(lab, st) ==
  IF Lower(lab) \in STOP_LABELS THEN NoneVal
  ELSE LET lab_l       == Lower(lab)
           stem_mapped == KeywordMapped(lab_l, st)
           drum_mapped == IF st = "drums" THEN FirstMatch(DRUM_LABELS, lab_l)
                          ELSE NoneVal
           instrument_mapped == FirstMatch(INSTRUMENT_LABELS, lab_l)
       IN  IF stem_mapped # NoneVal THEN stem_mapped
           ELSE IF drum_mapped # NoneVal THEN drum_mapped
           ELSE IF instrument_mapped # NoneVal THEN instrument_mapped
           ELSE FirstMatch(AUDIOSET_TO_COARSE, lab_l)

\* The raw labels the model draws predictions from: labels of the classifier's
\* vocabulary as it spells them, and lower-case spellings as the tables do.
StemLabels ==
  {"Music", "kick drum", "Snare drum", "synth bass", "Synthesizer", "Violin, fiddle"}
MapLabels ==
  { "Music", "Silence", "kick drum", "Snare drum", "Bass drum", "Hi-hat",
    "hi hat", "Crash cymbal", "Drum kit", "Drum machine", "Percussion",
    "Clapping", "Thunk", "Tom-tom", "Bass guitar", "sub bass", "Speech",
    "Singing", "Rapping", "Choir", "Synthesizer", "synth bass",
    "Electric piano", "Hammond organ", "Violin, fiddle", "Electric guitar",
    "Musical instrument", "Reverberation" }
Labels == StemLabels \cup MapLabels
StemTypes == {"drums", "bass", "vocals", "other"}

\* str.lower() tabulated over the labels of the model
LabelLower == [lab \in Labels |-> Lower(lab)]

\* MappedTag tabulated over the labels of the model
LabelTag == [lab \in Labels, st \in StemTypes |-> MappedTag(lab, st)]

\* one pass of the loop of lines 115-168
MapPred(out, pred, st) ==
  LET tag == LabelTag[pred[1], st]
  IN  IF tag = NoneVal THEN out ELSE MaxInto(out, tag, pred[2])

RECURSIVE MapFrom(_, _, _, _)
MapFrom(out, top_preds, n, st) ==
  IF n > Len(top_preds) THEN out
  ELSE MapFrom(MapPred(out, top_preds[n], st), top_preds, n + 1, st)

map_audioset_to_coarse_stem_aware(top_preds, st) == MapFrom(<< >>, top_preds, 1, st)

(***************************************************************************)
(* add_spectral_fallbacks                                                  *)
(***************************************************************************)
AnyIn(names, d) == \E n \in 1..Len(names) : Has(d, names[n])

\* variant: the rules assign their score instead of taking the maximum
add_spectral_fallbacks_Assign(tags0, chars, st) ==
  LET c     == chars.centroid
      onset == chars.onset_strength
  IN  CASE st = "drums" ->
             LET t1 == IF c > 4000 THEN Put(tags0, "hi-hat", 600)
                       ELSE IF c > 2500 THEN Put(tags0, "snare", 500)
                       ELSE IF c > 1500 THEN Put(tags0, "kick", 400)
                       ELSE tags0
             IN  IF onset > 300 /\ ~AnyIn(<<"kick", "snare", "hi-hat", "perc_loop">>, t1)
                 THEN Put(t1, "perc_loop", 500)
                 ELSE t1
        [] st = "bass" ->
             IF c < 2000 THEN Put(tags0, "sub_808", 600)
             ELSE Put(tags0, "synth_bass", 500)
        [] st = "other" ->
             IF c > 3000 THEN Put(tags0, "saw_lead", 500)
             ELSE IF c < 1500 THEN Put(tags0, "synth_pad", 500)
             ELSE Put(tags0, "pluck", 400)
        [] OTHER -> tags0

\* variant: every centroid threshold is inclusive
add_spectral_fallbacks_Inclusive(tags0, chars, st) ==
  LET c     == chars.centroid
      onset == chars.onset_strength
  IN  CASE st = "drums" ->
             LET t1 == IF c >= 4000 THEN MaxInto(tags0, "hi-hat", 600)
                       ELSE IF c >= 2500 THEN MaxInto(tags0, "snare", 500)
                       ELSE IF c >= 1500 THEN MaxInto(tags0, "kick", 400)
                       ELSE tags0
             IN  IF onset > 300 /\ ~AnyIn(<<"kick", "snare", "hi-hat", "perc_loop">>, t1)
                 THEN Put(t1, "perc_loop", 500)
                 ELSE t1
        [] st = "bass" ->
             IF c <= 2000 THEN MaxInto(tags0, "sub_808", 600)
             ELSE MaxInto(tags0, "synth_bass", 500)
        [] st = "other" ->
             IF c >= 3000 THEN MaxInto(tags0, "saw_lead", 500)
             ELSE IF c <= 1500 THEN MaxInto(tags0, "synth_pad", 500)
             ELSE MaxInto(tags0, "pluck", 400)
        [] OTHER -> tags0

add_spectral_fallbacks(tags0, chars, st) ==
  LET c     == chars.centroid
      onset == chars.onset_strength
  IN  CASE st = "drums" ->
             LET t1 == IF c > 4000 THEN MaxInto(tags0, "hi-hat", 600)
                       ELSE IF c > 2500 THEN MaxInto(tags0, "snare", 500)
                       ELSE IF c > 1500 THEN MaxInto(tags0, "kick", 400)
                       ELSE tags0
             IN  IF onset > 300 /\ ~AnyIn(<<"kick", "snare", "hi-hat", "perc_loop">>, t1)
                 THEN Put(t1, "perc_loop", 500)
                 ELSE t1
        [] st = "bass" ->
             IF c < 2000 THEN MaxInto(tags0, "sub_808", 600)
             ELSE MaxInto(tags0, "synth_bass", 500)
        [] st = "other" ->
             IF c > 3000 THEN MaxInto(tags0, "saw_lead", 500)
             ELSE IF c < 1500 THEN MaxInto(tags0, "synth_pad", 500)
             ELSE MaxInto(tags0, "pluck", 400)
        [] OTHER -> tags0

(***************************************************************************)
(* label_map.refine_synth_family and its use in tag_stem                   *)
(***************************************************************************)
refine_synth_family(top_labels, centroid_hz, is_wide_stereo) ==
  LET labs == {top_labels[n][1] : n \in 1..Len(top_labels)}
  IN  IF \E l \in labs : Contains("synth", l)
      THEN IF centroid_hz > 3000 /\ is_wide_stereo THEN "saw_lead"
           ELSE IF centroid_hz < 1200 THEN "synth_pad"
           ELSE "pluck"
      ELSE NoneVal

\* tag_stem, lines 340-342
ApplySynthRefinement(d, top_preds, centroid_hz, w) ==
  LET fam == refine_synth_family(top_preds, centroid_hz, w > 250)
  IN  IF fam # NoneVal THEN MaxInto(d, fam, 500) ELSE d

\* tag_stem, lines 345-348
ApplyStemSidechain(d, gs, wave) ==
  IF ~gs
  THEN LET sc == DetectSidechainPump(wave, SR)
       IN  IF sc[1] THEN Put(d, "sidechain_pump", SidechainStrength(sc[2])) ELSE d
  ELSE d

\* tag_stem, lines 351-352
ApplyStereoWide(d, w) ==
  IF w > 250 THEN Put(d, "stereo_wide", Min(1000, w)) ELSE d

(***************************************************************************)
(* smart_confidence_calibration                                            *)
(***************************************************************************)
\* variant: the medium band starts at 0.3 inclusive
RECURSIVE CalibrateFrom_Inclusive(_, _, _)
CalibrateFrom_Inclusive(cal, d, n) ==
  IF n > Len(d) THEN cal
  ELSE LET tag   == d[n][1]
           score == d[n][2]
       IN  CalibrateFrom_Inclusive(
             IF score > 700 THEN Put(cal, tag, score)
             ELSE IF score >= 300 THEN Put(cal, tag, Min(1000, (score * 12) \div 10))
             ELSE IF score > 150 THEN Put(cal, tag, score)
             ELSE cal,
             d, n + 1)

\* the loop of lines 268-275
RECURSIVE CalibrateFrom(_, _, _)
CalibrateFrom(cal, d, n) ==
  IF n > Len(d) THEN cal
  ELSE LET tag   == d[n][1]
           score == d[n][2]
       IN  CalibrateFrom(
             IF score > 700 THEN Put(cal, tag, score)
             ELSE IF score > 300 THEN Put(cal, tag, Min(1000, (score * 12) \div 10))
             ELSE IF score > 150 THEN Put(cal, tag, score)
             ELSE cal,
             d, n + 1)

\* lines 277-285
EnsureMinimumTags(cal, st) ==
  LET c1 == IF st = "drums" /\ ~AnyIn(<<"kick", "snare", "hi-hat", "perc_loop">>, cal)
            THEN Put(cal, "perc_loop", 400) ELSE cal
      c2 == IF st = "bass" /\ ~AnyIn(<<"sub_808", "synth_bass", "reese">>, c1)
            THEN Put(c1, "synth_bass", 400) ELSE c1
      c3 == IF st = "other" /\ ~AnyIn(<<"synth_pad", "saw_lead", "pluck">>, c2)
            THEN Put(c2, "synth_pad", 400) ELSE c2
  IN  c3

smart_confidence_calibration(d, st) ==
  IF d = << >> THEN << >>
  ELSE EnsureMinimumTags(CalibrateFrom(<< >>, d, 1), st)

(***************************************************************************)
(* separate_meta_content_tags; returns <<content_tags, meta_tags>>         *)
(***************************************************************************)
meta_tag_names == {"stereo_wide", "sidechain_pump"}
IsMeta(e) == e[1] \in meta_tag_names
IsContent(e) == e[1] \notin meta_tag_names

\* variant: only stereo_wide is taken for a meta tag
IsMeta_StereoOnly(e) == e[1] = "stereo_wide"
IsContent_StereoOnly(e) == e[1] # "stereo_wide"
separate_meta_content_tags_StereoOnly(tags_dict) ==
  << SelectSeq(tags_dict, IsContent_StereoOnly), SelectSeq(tags_dict, IsMeta_StereoOnly) >>

separate_meta_content_tags(tags_dict) ==
  << SelectSeq(tags_dict, IsContent), SelectSeq(tags_dict, IsMeta) >>

(***************************************************************************)
(* tag_stem, lines 360-374: ranking, truncation and the returned record    *)
(***************************************************************************)
\* sorted(d.items(), key=lambda x: -x[1]): stable, descending by score
RECURSIVE InsertDesc(_, _)
InsertDesc(s, e) ==
  IF s = << >> THEN <<e>>
  ELSE IF Head(s)[2] >= e[2] THEN <<Head(s)>> \o InsertDesc(Tail(s), e)
  ELSE <<e>> \o s

RECURSIVE SortedDescFrom(_, _, _)
SortedDescFrom(acc, d, n) ==
  IF n > Len(d) THEN acc ELSE SortedDescFrom(InsertDesc(acc, d[n]), d, n + 1)

\* variant: in every second run of the clip, equal scores come out in the
\* opposite order
RECURSIVE InsertDesc_Strict(_, _)
InsertDesc_Strict(s, e) ==
  IF s = << >> THEN <<e>>
  ELSE IF Head(s)[2] > e[2] THEN <<Head(s)>> \o InsertDesc_Strict(Tail(s), e)
  ELSE <<e>> \o s
RECURSIVE SortedDescFrom_Strict(_, _, _)
SortedDescFrom_Strict(acc, d, n) ==
  IF n > Len(d) THEN acc
  ELSE SortedDescFrom_Strict(InsertDesc_Strict(acc, d[n]), d, n + 1)
SortedDesc_PerRun(d) ==
  IF Len(out_json) % 2 = 0 THEN SortedDescFrom(<< >>, d, 1)
  ELSE SortedDescFrom_Strict(<< >>, d, 1)

SortedDesc(d) == SortedDescFrom(<< >>, d, 1)

\* round(v, 2) on thousandths; a tie goes to the even hundredth
Round2(v) ==
  LET q == v \div 10
      r == v % 10
  IN  10 * (IF r > 5 \/ (r = 5 /\ q % 2 = 1) THEN q + 1 ELSE q)

AtLeastContentMin(e) == e[2] >= CONTENT_MIN_SCORE

\* variant: no truncation to TOP_K_TAGS
TopContent_NoCut(content) ==
  LET kept == SelectSeq(SortedDesc(content), AtLeastContentMin)
  IN  [n \in 1..Len(kept) |-> [label |-> kept[n][1], score |-> Round2(kept[n][2])]]

\* lines 361-362
TopContent(content) ==
  LET top  == Take(SortedDesc(content), TOP_K_TAGS)
      kept == SelectSeq(top, AtLeastContentMin)
  IN  [n \in 1..Len(kept) |-> [label |-> kept[n][1], score |-> Round2(kept[n][2])]]

\* line 365
MetaTagsList(meta) ==
  LET srt == SortedDesc(meta)
  IN  [n \in 1..Len(srt) |-> [label |-> srt[n][1], score |-> srt[n][2]]]

\* lines 354-374, from the finished tag dict to the returned record
StemResult(p, c, w, top_preds, d, st) ==
  LET cal == smart_confidence_calibration(d, st)
      sep == separate_meta_content_tags(cal)
  IN  [ file                 |-> p,
        spectral_centroid_hz |-> c,
        stereo_width         |-> w,
        top_audioset         |-> top_preds,
        content_tags         |-> TopContent(sep[1]),
        meta_tags            |-> MetaTagsList(sep[2]) ]

\* tag_stem as a whole, on the file's measured quantities
tag_stem(p, f, gs) ==
  LET st    == StemTypeOf(p)
      w     == StereoWidthEstimate(f.stereo)
      chars == AnalyzeStemCharacteristics(f)
      top   == TopPreds(f.ranked)
      c0    == map_audioset_to_coarse_stem_aware(top, st)
      c1    == add_spectral_fallbacks(c0, chars, st)
      c2    == ApplySynthRefinement(c1, top, f.centroid, w)
      c3    == ApplyStemSidechain(c2, gs, f.wave)
      c4    == ApplyStereoWide(c3, w)
  IN  StemResult(p, f.centroid, w, top, c4, st)

(***************************************************************************)
(* Inputs: what a stem file holds, as the analysis functions measure it    *)
(***************************************************************************)
StemPaths == {"drums.wav", "bass.wav", "vocals.wav", "other.wav"}

Scores == {100, 250, 900}

\* The classifier output ranked by np.argsort(-clipwise_output): distinct
\* labels, scores non-increasing.
RankedOutputs ==
  UNION { { r \in [1..n -> StemLabels \X Scores] :
              /\ \A a, b \in 1..n : a # b => r[a][1] # r[b][1]
              /\ \A a \in 1..(n - 1) : r[a][2] >= r[a + 1][2] }
          : n \in 0..MaxRanked }

Centroids == {1000, 2200, 3500, 4500}

StereoData ==
  { [channels |-> 1, l_flat |-> FALSE, r_flat |-> FALSE, corr |-> 1000],
    [channels |-> 2, l_flat |-> FALSE, r_flat |-> FALSE, corr |-> 600],
    [channels |-> 2, l_flat |-> FALSE, r_flat |-> FALSE, corr |-> -500] }

\* librosa's beat tracking and onset strength: what they return, or that they raise
Rhythms == { [raises |-> TRUE, tempo |-> 0, onset_strength |-> 0],
             [raises |-> FALSE, tempo |-> 98000, onset_strength |-> 500] }

WeakPump   == << <<250, 900>>, <<1000, 40>>, <<2000, 90>>, <<3000, 50>> >>
StrongPump == << <<250, 10>>, <<1000, 4>>, <<2000, 900>>, <<3000, 6>> >>
MildPump   == << <<250, 10>>, <<1000, 10>>, <<2000, 150>>, <<3000, 10>> >>
Waves == { [n |-> 64000, flat |-> FALSE, pxx |-> WeakPump],
           [n |-> 64000, flat |-> FALSE, pxx |-> StrongPump] }

StemFiles ==
  [ranked : RankedOutputs, centroid : Centroids, stereo : StereoData,
   rhythm : Rhythms, wave : Waves]

(***************************************************************************)
(* Specification Spec: one call of tag_stem, statement by statement        *)
(***************************************************************************)
StemIdle ==
  /\ stem_type = NoneVal /\ y = NoneVal /\ centroid = 0 /\ width = 0
  /\ characteristics = NoneVal /\ preds = << >> /\ i = 1 /\ coarse = << >>
  /\ result = NoneVal

CalIdle ==
  /\ tags = << >> /\ calibrated = << >> /\ content_tags = << >> /\ meta_tags = << >>

ClipIdle ==
  /\ clip_dir = NoneVal /\ at = NoneVal /\ summed_audio = NoneVal
  /\ global_sc = NoneVal /\ k = 1 /\ results = << >> /\ out_json = << >>
  /\ exc = NoneVal /\ mix_env = NoneVal /\ events = << >>

Init ==
  /\ pc = "start"
  /\ path \in StemPaths
  /\ global_sidechain \in BOOLEAN
  /\ StemIdle /\ CalIdle /\ ClipIdle

\* lines 308-331, for a file of the set `files`
LoadFrom(files) ==
  /\ pc = "start"
  /\ stem_type' = StemTypeOf(path)
  /\ \E f \in files :
       /\ y' = f.wave
       /\ centroid' = f.centroid
       /\ width' = StereoWidthEstimate(f.stereo)
       /\ characteristics' = AnalyzeStemCharacteristics(f)
       /\ preds' = TopPreds(f.ranked)
  /\ i' = 1
  /\ coarse' = << >>
  /\ pc' = "map"
  /\ UNCHANGED <<path, global_sidechain, result, calVars, clipVars>>

Load == LoadFrom(StemFiles)

\* line 334, one prediction
MapStep ==
  /\ pc = "map"
  /\ i <= Len(preds)
  /\ coarse' = MapPred(coarse, preds[i], stem_type)
  /\ i' = i + 1
  /\ UNCHANGED <<pc, path, global_sidechain, stem_type, y, centroid, width,
                 characteristics, preds, result, calVars, clipVars>>

\* line 334, the loop is over
MapReturn ==
  /\ pc = "map"
  /\ i > Len(preds)
  /\ pc' = "fallback"
  /\ UNCHANGED <<stemVars, calVars, clipVars>>

\* line 337
Fallback ==
  /\ pc = "fallback"
  /\ coarse' = add_spectral_fallbacks(coarse, characteristics, stem_type)
  /\ pc' = "refine"
  /\ UNCHANGED <<path, global_sidechain, stem_type, y, centroid, width,
                 characteristics, preds, i, result, calVars, clipVars>>

\* lines 340-342
Refine ==
  /\ pc = "refine"
  /\ coarse' = ApplySynthRefinement(coarse, preds, centroid, width)
  /\ pc' = "sidechain"
  /\ UNCHANGED <<path, global_sidechain, stem_type, y, centroid, width,
                 characteristics, preds, i, result, calVars, clipVars>>

\* lines 345-348
Sidechain ==
  /\ pc = "sidechain"
  /\ coarse' = ApplyStemSidechain(coarse, global_sidechain, y)
  /\ pc' = "stereo"
  /\ UNCHANGED <<path, global_sidechain, stem_type, y, centroid, width,
                 characteristics, preds, i, result, calVars, clipVars>>

\* lines 351-352
StereoWide ==
  /\ pc = "stereo"
  /\ coarse' = ApplyStereoWide(coarse, width)
  /\ pc' = "calibrate"
  /\ UNCHANGED <<path, global_sidechain, stem_type, y, centroid, width,
                 characteristics, preds, i, result, calVars, clipVars>>

\* lines 355-374
Finish ==
  /\ pc = "calibrate"
  /\ calibrated' = smart_confidence_calibration(coarse, stem_type)
  /\ content_tags' = separate_meta_content_tags(calibrated')[1]
  /\ meta_tags' = separate_meta_content_tags(calibrated')[2]
  /\ result' = StemResult(path, centroid, width, preds, coarse, stem_type)
  /\ pc' = "done"
  /\ UNCHANGED <<path, global_sidechain, stem_type, y, centroid, width,
                 characteristics, preds, i, coarse, tags, clipVars>>

Next ==
  \/ Load
  \/ MapStep
  \/ MapReturn
  \/ Fallback
  \/ Refine
  \/ Sidechain
  \/ StereoWide
  \/ Finish

Spec == Init /\ [][Next]_vars

(***************************************************************************)
(* Specification SpecTop: tag_stem over files for which the classifier     *)
(* returns up to MaxTopRanked labels of different instrument families      *)
(***************************************************************************)
MaxTopRanked == 3
TopLabels == {"Violin, fiddle", "kick drum", "Hammond organ", "synth bass"}
TopScores == {250, 900}
TopRankedOutputs ==
  UNION { { r \in [1..n -> TopLabels \X TopScores] :
              /\ \A a, b \in 1..n : a # b => r[a][1] # r[b][1]
              /\ \A a \in 1..(n - 1) : r[a][2] >= r[a + 1][2] }
          : n \in 0..MaxTopRanked }
TopFiles ==
  [ranked : TopRankedOutputs, centroid : {1000, 2200, 3500},
   stereo : { [channels |-> 1, l_flat |-> FALSE, r_flat |-> FALSE, corr |-> 1000],
              [channels |-> 2, l_flat |-> FALSE, r_flat |-> FALSE, corr |-> 600] },
   rhythm : { [raises |-> FALSE, tempo |-> 98000, onset_strength |-> 500] },
   wave   : { [n |-> 64000, flat |-> FALSE, pxx |-> WeakPump] }]

LoadTop == LoadFrom(TopFiles)

NextTop ==
  \/ LoadTop
  \/ MapStep
  \/ MapReturn
  \/ Fallback
  \/ Refine
  \/ Sidechain
  \/ StereoWide
  \/ Finish

SpecTop == Init /\ [][NextTop]_vars

(***************************************************************************)
(* Specification SpecMap: map_audioset_to_coarse_stem_aware on its own,    *)
(* over every stem type and lists of predictions drawn from MapLabels      *)
(***************************************************************************)
MaxMapPreds == 2
MapScores == {250, 900}

MapPredLists ==
  UNION { { r \in [1..n -> MapLabels \X MapScores] :
              /\ \A a, b \in 1..n : a # b => r[a][1] # r[b][1]
              /\ \A a \in 1..(n - 1) : r[a][2] >= r[a + 1][2] }
          : n \in 0..MaxMapPreds }

InitMap ==
  /\ pc = "map"
  /\ stem_type \in StemTypes
  /\ preds \in MapPredLists
  /\ path = NoneVal /\ global_sidechain = FALSE /\ y = NoneVal
  /\ centroid = 0 /\ width = 0 /\ characteristics = NoneVal
  /\ i = 1 /\ coarse = << >> /\ result = NoneVal
  /\ CalIdle /\ ClipIdle

NextMap ==
  \/ MapStep
  \/ MapReturn

SpecMap == InitMap /\ [][NextMap]_vars

(***************************************************************************)
(* Specification SpecCalib: the tail of tag_stem (calibration, separation, *)
(* ranking) applied to an arbitrary tag dict                               *)
(***************************************************************************)
CalTags == {"kick", "perc_loop", "synth_bass", "synth_pad", "vox",
            "stereo_wide", "sidechain_pump"}
CalScores == {100, 150, 200, 300, 500, 700, 800}

TagDicts ==
  UNION { { d \in [1..n -> CalTags \X CalScores] :
              \A a, b \in 1..n : a # b => d[a][1] # d[b][1] }
          : n \in 0..MaxTags }

InitCalib ==
  /\ pc = "calibrate"
  /\ stem_type \in StemTypes
  /\ tags \in TagDicts
  /\ calibrated = << >> /\ content_tags = << >> /\ meta_tags = << >>
  /\ path = NoneVal /\ global_sidechain = FALSE /\ y = NoneVal
  /\ centroid = 0 /\ width = 0 /\ characteristics = NoneVal
  /\ preds = << >> /\ i = 1 /\ coarse = << >> /\ result = NoneVal
  /\ ClipIdle

\* line 355
Calibrate ==
  /\ pc = "calibrate"
  /\ calibrated' = smart_confidence_calibration(tags, stem_type)
  /\ pc' = "separate"
  /\ UNCHANGED <<stemVars, tags, content_tags, meta_tags, clipVars>>

\* line 358
Separate ==
  /\ pc = "separate"
  /\ content_tags' = separate_meta_content_tags(calibrated)[1]
  /\ meta_tags' = separate_meta_content_tags(calibrated)[2]
  /\ pc' = "rank"
  /\ UNCHANGED <<stemVars, tags, calibrated, clipVars>>

\* lines 361-365
Rank ==
  /\ pc = "rank"
  /\ result' = [content_tags |-> TopContent(content_tags),
                meta_tags    |-> MetaTagsList(meta_tags)]
  /\ pc' = "done"
  /\ UNCHANGED <<path, global_sidechain, stem_type, y, centroid, width,
                 characteristics, preds, i, coarse, calVars, clipVars>>

NextCalib ==
  \/ Calibrate
  \/ Separate
  \/ Rank

SpecCalib == InitCalib /\ [][NextCalib]_vars

(***************************************************************************)
(* detect_global_sidechain and tag_clip_folder                             *)
(*                                                                         *)
(* A directory entry is absent, a directory, a file librosa cannot decode  *)
(* ("corrupt"), a file librosa decodes and soundfile does not ("no_sf": it *)
(* fails in stereo_width_estimate only), or a readable stem file.          *)
(***************************************************************************)
\* variant: the list without its last entry
GlobalStems_Short == <<"drums.wav", "bass.wav", "vocals.wav">>
\* the list of line 381
GlobalStems == <<"drums.wav", "bass.wav", "vocals.wav", "other.wav">>
\* variant: bass is tagged before drums
ClipStems_BassFirst == <<"bass.wav", "drums.wav", "vocals.wav", "other.wav">>
\* the list of line 416
ClipStems == <<"drums.wav", "bass.wav", "vocals.wav", "other.wav">>

\* Path.exists() and Path.is_file()
Exists(e) == e.kind # "absent"
IsFile(e) == e.kind \notin {"absent", "dir"}
\* librosa.load succeeds; sf.read succeeds
LibrosaLoads(e) == e.kind \in {"no_sf", "file"}
SfReads(e) == e.kind = "file"

\* The running sum of lines 385-398: its length (the shorter operand is
\* zero-padded) and the stems added into it; summed_audio is None while no
\* stem has been added.
NoAudio == [n |-> 0, stems |-> << >>]
AddStem(sum, name, wave) ==
  IF sum.stems = << >> THEN [n |-> wave.n, stems |-> <<name>>]
  ELSE [n |-> Max(sum.n, wave.n), stems |-> Append(sum.stems, name)]

\* lines 400-407
GlobalDetect(sum, env) ==
  IF sum.stems = << >> THEN <<FALSE, 0, NoneVal>>
  ELSE DetectSidechainPump([n |-> sum.n, flat |-> env.flat, pxx |-> env.pxx], SR)

\* variant: the call without global_sidechain=True
TagStemOfClip_PerStem(p, f) == tag_stem(p, f, FALSE)
\* line 420: the call of tag_stem made for a stem of the clip
TagStemOfClip(p, f) == tag_stem(p, f, TRUE)

\* lines 424-432
Metadata(sc) ==
  IF sc[1]
  THEN [detected |-> TRUE, strength |-> SidechainStrength(sc[2]), frequency_hz |-> sc[3]]
  ELSE [detected |-> FALSE]

ClipName == "clipA"
StemPath(name) == ClipName \o "/" \o name

FileA ==
  [ranked |-> << <<"kick drum", 900>>, <<"Snare drum", 900>> >>, centroid |-> 4500,
   stereo |-> [channels |-> 2, l_flat |-> FALSE, r_flat |-> FALSE, corr |-> -500],
   rhythm |-> [raises |-> FALSE, tempo |-> 98000, onset_strength |-> 500],
   wave   |-> [n |-> 64000, flat |-> FALSE, pxx |-> StrongPump]]
FileB ==
  [ranked |-> << <<"Violin, fiddle", 900>>, <<"synth bass", 250>> >>, centroid |-> 1000,
   stereo |-> [channels |-> 1, l_flat |-> FALSE, r_flat |-> FALSE, corr |-> 1000],
   rhythm |-> [raises |-> TRUE, tempo |-> 0, onset_strength |-> 0],
   wave   |-> [n |-> 16000, flat |-> FALSE, pxx |-> WeakPump]]

Entries ==
  { [kind |-> "absent", f |-> FileB], [kind |-> "dir", f |-> FileB],
    [kind |-> "corrupt", f |-> FileB], [kind |-> "no_sf", f |-> FileB],
    [kind |-> "file", f |-> FileA], [kind |-> "file", f |-> FileB] }

ClipDirs == [{ClipStems[n] : n \in 1..Len(ClipStems)} -> Entries]

MixEnvelopes == { [flat |-> FALSE, pxx |-> WeakPump],
                  [flat |-> FALSE, pxx |-> MildPump],
                  [flat |-> FALSE, pxx |-> StrongPump] }

InitClip ==
  /\ pc = "init_model"
  /\ clip_dir \in ClipDirs
  /\ mix_env \in MixEnvelopes
  /\ at = NoneVal /\ summed_audio = NoAudio /\ global_sc = <<FALSE, 0, NoneVal>>
  /\ k = 1 /\ results = << >> /\ out_json = << >> /\ exc = NoneVal
  /\ events = << >>
  /\ path = NoneVal /\ global_sidechain = FALSE
  /\ StemIdle /\ CalIdle

\* line 410: the model loads, or cannot be loaded
LoadModel ==
  /\ pc = "init_model"
  /\ \/ /\ at' = "AudioTagging"
        /\ pc' = "global_sum"
        /\ exc' = exc
        /\ events' = Append(events, "init")
     \/ /\ at' = at
        /\ pc' = "raised"
        /\ exc' = "ClassifierUnavailable"
        /\ events' = events
  /\ UNCHANGED <<stemVars, calVars, clip_dir, summed_audio, global_sc, k,
                 results, out_json, mix_env>>

\* lines 386-398, one stem path
GlobalSumStep ==
  /\ pc = "global_sum"
  /\ k <= Len(GlobalStems)
  /\ LET name == GlobalStems[k]
         e    == clip_dir[name]
     IN  IF ~Exists(e)
         THEN /\ k' = k + 1
              /\ UNCHANGED <<pc, summed_audio, exc>>
         ELSE IF ~LibrosaLoads(e)
         THEN /\ pc' = "raised"
              /\ exc' = "MalformedAudio"
              /\ UNCHANGED <<k, summed_audio>>
         ELSE /\ summed_audio' = AddStem(summed_audio, name, e.f.wave)
              /\ k' = k + 1
              /\ UNCHANGED <<pc, exc>>
  /\ UNCHANGED <<stemVars, calVars, clip_dir, at, global_sc, results, out_json,
                 mix_env, events>>

\* lines 400-407 and 413-415
GlobalReturn ==
  /\ pc = "global_sum"
  /\ k > Len(GlobalStems)
  /\ global_sc' = GlobalDetect(summed_audio, mix_env)
  /\ results' = << >>
  /\ k' = 1
  /\ pc' = "tag"
  /\ events' = Append(events, "global")
  /\ UNCHANGED <<stemVars, calVars, clip_dir, at, summed_audio, out_json, exc,
                 mix_env>>

\* lines 416-421, one stem
TagStep ==
  /\ pc = "tag"
  /\ k <= Len(ClipStems)
  /\ LET name == ClipStems[k]
         e    == clip_dir[name]
     IN  IF ~IsFile(e)
         THEN /\ k' = k + 1
              /\ UNCHANGED <<pc, results, exc, events>>
         ELSE IF ~(LibrosaLoads(e) /\ SfReads(e))
         THEN /\ pc' = "raised"
              /\ exc' = "MalformedAudio"
              /\ UNCHANGED <<k, results, events>>
         ELSE /\ results' = Append(results, TagStemOfClip(StemPath(name), e.f))
              /\ events' = Append(events, "tag:" \o name)
              /\ k' = k + 1
              /\ UNCHANGED <<pc, exc>>
  /\ UNCHANGED <<stemVars, calVars, clip_dir, at, summed_audio, global_sc,
                 out_json, mix_env>>

\* lines 424-442: the document is written, or the write fails
WriteArtifact ==
  /\ pc = "tag"
  /\ k > Len(ClipStems)
  /\ \/ /\ out_json' = Append(out_json,
                             [clip     |-> ClipName,
                              metadata |-> [global_sidechain |-> Metadata(global_sc)],
                              results  |-> results])
        /\ pc' = "done"
        /\ exc' = exc
        /\ events' = Append(events, "write")
     \/ /\ out_json' = out_json
        /\ pc' = "raised"
        /\ exc' = "ArtifactWriteFailure"
        /\ events' = events
  /\ UNCHANGED <<stemVars, calVars, clip_dir, at, summed_audio, global_sc, k,
                 results, mix_env>>

NextClip ==
  \/ LoadModel
  \/ GlobalSumStep
  \/ GlobalReturn
  \/ TagStep
  \/ WriteArtifact

SpecClip == InitClip /\ [][NextClip]_vars

(***************************************************************************)
(* Specification SpecRerun: tag_clip_folder run again and again over the   *)
(* same clip directory, MaxRuns times at most                              *)
(***************************************************************************)
MaxRuns == 2

\* tag_clip_folder is called again on the same directory
Rerun ==
  /\ pc = "done"
  /\ Len(out_json) < MaxRuns
  /\ pc' = "init_model"
  /\ at' = NoneVal
  /\ summed_audio' = NoAudio
  /\ global_sc' = <<FALSE, 0, NoneVal>>
  /\ k' = 1
  /\ results' = << >>
  /\ events' = << >>
  /\ UNCHANGED <<stemVars, calVars, clip_dir, out_json, exc, mix_env>>

NextRerun ==
  \/ LoadModel
  \/ GlobalSumStep
  \/ GlobalReturn
  \/ TagStep
  \/ WriteArtifact
  \/ Rerun

SpecRerun == InitClip /\ [][NextRerun]_vars

(***************************************************************************)
(* Specification SpecEntry: either entry point of the module, tag_stem     *)
(* called on one file or tag_clip_folder called on a clip directory        *)
(***************************************************************************)
InitEntry == Init \/ InitClip

NextEntry ==
  \/ Next
  \/ NextClip

SpecEntry == InitEntry /\ [][NextEntry]_vars

(***************************************************************************)
(* Specification SpecFallback: the fallback and synth refinement steps of  *)
(* tag_stem, from the dict the mapper returned, with centroids, onset      *)
(* strengths and widths on either side of every threshold                  *)
(***************************************************************************)
MaxFbPreds == 2
FbLabels == {"kick drum", "Hi-hat", "Percussion", "sub bass", "synth bass",
             "Synthesizer", "Singing"}
FbScores == {250, 900}
FbPredLists ==
  UNION { { r \in [1..n -> FbLabels \X FbScores] :
              /\ \A a, b \in 1..n : a # b => r[a][1] # r[b][1]
              /\ \A a \in 1..(n - 1) : r[a][2] >= r[a + 1][2] }
          : n \in 0..MaxFbPreds }
FbCentroids == {1199, 1200, 1499, 1500, 1501, 1999, 2000, 2500, 2501,
                3000, 3001, 4000, 4001}
FbOnsets == {300, 301}
FbWidths == {250, 251}

InitFallback ==
  /\ pc = "fallback"
  /\ stem_type \in StemTypes
  /\ preds \in FbPredLists
  /\ coarse = map_audioset_to_coarse_stem_aware(preds, stem_type)
  /\ i = Len(preds) + 1
  /\ centroid \in FbCentroids
  /\ \E onset \in FbOnsets :
       characteristics = [centroid |-> centroid, tempo |-> 98000,
                          onset_strength |-> onset]
  /\ width \in FbWidths
  /\ path = NoneVal /\ global_sidechain = FALSE /\ y = NoneVal
  /\ result = NoneVal
  /\ CalIdle /\ ClipIdle

NextFallback ==
  \/ Fallback
  \/ Refine

SpecFallback == InitFallback /\ [][NextFallback]_vars

(***************************************************************************)
(* Specification SpecPump: detect_sidechain_pump on its own, over          *)
(* waveforms shorter and longer than a second, with constant and varying   *)
(* envelopes, and every periodogram over PumpFreqs with powers PumpPowers  *)
(***************************************************************************)
PumpFreqs == <<250, 500, 2000, 4000, 4500>>
PumpPowers == {0, 1, 20, 900}
PumpSpectra ==
  { [n \in 1..Len(PumpFreqs) |-> <<PumpFreqs[n], pw[n]>>] :
      pw \in [1..Len(PumpFreqs) -> PumpPowers] }
PumpWaves == [n : {16000, 64000}, flat : BOOLEAN, pxx : PumpSpectra]

InitPump ==
  /\ pc = "pump"
  /\ y \in PumpWaves
  /\ global_sc = <<FALSE, 0, NoneVal>>
  /\ path = NoneVal /\ global_sidechain = FALSE /\ stem_type = NoneVal
  /\ centroid = 0 /\ width = 0 /\ characteristics = NoneVal
  /\ preds = << >> /\ i = 1 /\ coarse = << >> /\ result = NoneVal
  /\ CalIdle
  /\ clip_dir = NoneVal /\ at = NoneVal /\ summed_audio = NoneVal
  /\ k = 1 /\ results = << >> /\ out_json = << >>
  /\ exc = NoneVal /\ mix_env = NoneVal /\ events = << >>

\* lines 24-50
DetectPump ==
  /\ pc = "pump"
  /\ global_sc' = DetectSidechainPump(y, SR)
  /\ pc' = "done"
  /\ UNCHANGED <<stemVars, calVars, clip_dir, at, summed_audio, k, results,
                 out_json, exc, mix_env, events>>

NextPump == DetectPump

SpecPump == InitPump /\ [][NextPump]_vars

(***************************************************************************)
(* Properties                                                              *)
(***************************************************************************)
ResultLabels(r) ==
  {r.content_tags[n].label : n \in 1..Len(r.content_tags)}
    \cup {r.meta_tags[n].label : n \in 1..Len(r.meta_tags)}

\* C1 (Spec): every StemAnalysis returned by tag_stem has at most 3 content
\* tags, and each reported content score is at least 0.15.
C1_ContentTagsBounded ==
  pc = "done" =>
    /\ Len(result.content_tags) <= 3
    /\ \A n \in 1..Len(result.content_tags) : result.content_tags[n].score >= 150

\* C1 witness: a finished stem whose calibrated dict held more than three
\* content tags, three of which are reported.
C1_Witness ==
  pc = "done" /\ Len(content_tags) > 3 /\ Len(result.content_tags) = 3

\* C2 (Spec): every tag name of a StemAnalysis, content or meta, is one of the
\* 23 names of COARSE_TAGS or saw_lead or synth_pad.
C2_ClosedVocabulary ==
  pc = "done" => ResultLabels(result) \subseteq (COARSE_TAGS \cup {"saw_lead", "synth_pad"})

\* The guaranteed set and the injected tag of a stem type, as C3 states them.
GuaranteedSet(st) ==
  CASE st = "drums" -> {"kick", "snare", "hi-hat", "perc_loop"}
    [] st = "bass"  -> {"sub_808", "synth_bass", "reese"}
    [] st = "other" -> {"synth_pad", "saw_lead", "pluck"}
    [] OTHER        -> {}
InjectedTag(st) ==
  CASE st = "drums" -> "perc_loop"
    [] st = "bass"  -> "synth_bass"
    [] st = "other" -> "synth_pad"
    [] OTHER        -> NoneVal
\* no tag of the stem type's guaranteed set passes the filter (score > 0.15)
NoneSurvives(d, st) ==
  \A n \in 1..Len(d) : d[n][1] \in GuaranteedSet(st) => d[n][2] <= 150

\* C3 (SpecCalib): for every input dict, the empty one included, the output of
\* smart_confidence_calibration holds a tag of the stem type's guaranteed set
\* for drums, bass and other; when none survived the filter the injected tag
\* is perc_loop, synth_bass or synth_pad with score 0.4; nothing is injected
\* for vocals.
C3_MinimumTagGuarantee ==
  pc # "calibrate" =>
    /\ stem_type # "vocals" => Keys(calibrated) \cap GuaranteedSet(stem_type) # {}
    /\ (stem_type # "vocals" /\ NoneSurvives(tags, stem_type)) =>
         /\ Get(calibrated, InjectedTag(stem_type), 0) = 400
         /\ Keys(calibrated) \cap GuaranteedSet(stem_type) = {InjectedTag(stem_type)}
    /\ stem_type = "vocals" => Keys(calibrated) \subseteq Keys(tags)

\* The score C4 assigns to an input score s: 0 stands for "removed".
C4_Score(sc) ==
  IF sc > 700 THEN sc
  ELSE IF sc > 300 THEN Min(1000, (12 * sc) \div 10)
  ELSE IF sc > 150 THEN sc
  ELSE 0

\* C4 as stated (SpecCalib): each input score s is transformed on its own:
\* kept if s > 0.7, min(1.0, 1.2 s) if 0.3 < s <= 0.7, kept if 0.15 < s <= 0.3,
\* and the tag is removed if s <= 0.15.
C4_AsStated ==
  pc # "calibrate" =>
    \A n \in 1..Len(tags) :
      IF C4_Score(tags[n][2]) = 0
      THEN ~Has(calibrated, tags[n][1])
      ELSE Has(calibrated, tags[n][1])
           /\ Get(calibrated, tags[n][1], 0) = C4_Score(tags[n][2])

\* C4 amended (SpecCalib): as C4, except that a tag with s <= 0.15 which is the
\* stem type's injected tag comes back with score 0.4 when no tag of the stem
\* type's guaranteed set passed the filter.
C4_PerScoreCalibration ==
  pc # "calibrate" =>
    \A n \in 1..Len(tags) :
      IF C4_Score(tags[n][2]) = 0
      THEN \/ ~Has(calibrated, tags[n][1])
           \/ /\ tags[n][1] = InjectedTag(stem_type)
              /\ NoneSurvives(tags, stem_type)
              /\ Get(calibrated, tags[n][1], 0) = 400
      ELSE Has(calibrated, tags[n][1])
           /\ Get(calibrated, tags[n][1], 0) = C4_Score(tags[n][2])

\* C4 witness: a medium score boosted and a low score dropped in one call, and
\* the spec's example 0.5 -> 0.6.
C4_Witness ==
  /\ pc = "separate"
  /\ \E n \in 1..Len(tags) : tags[n][2] = 500 /\ Get(calibrated, tags[n][1], 0) = 600
  /\ \E n \in 1..Len(tags) : tags[n][2] = 100 /\ ~Has(calibrated, tags[n][1])

\* C5 (SpecCalib): separate_meta_content_tags splits its input into two
\* disjoint dicts whose union is the input, scores unchanged; the meta dict
\* holds only stereo_wide and sidechain_pump and the content dict neither, and
\* so do the meta_tags and content_tags lists built from them.
C5_MetaContentPartition ==
  /\ pc \in {"rank", "done"} =>
       /\ Keys(meta_tags) \subseteq {"stereo_wide", "sidechain_pump"}
       /\ Keys(content_tags) \cap {"stereo_wide", "sidechain_pump"} = {}
       /\ {content_tags[n] : n \in 1..Len(content_tags)}
            \cup {meta_tags[n] : n \in 1..Len(meta_tags)}
          = {calibrated[n] : n \in 1..Len(calibrated)}
       /\ Len(content_tags) + Len(meta_tags) = Len(calibrated)
  /\ pc = "done" =>
       /\ \A n \in 1..Len(result.meta_tags) :
            result.meta_tags[n].label \in {"stereo_wide", "sidechain_pump"}
       /\ \A n \in 1..Len(result.content_tags) :
            result.content_tags[n].label \notin {"stereo_wide", "sidechain_pump"}

\* C5 witness: a ranked result with both meta tags and a content tag.
C5_Witness ==
  /\ pc = "done"
  /\ Keys(meta_tags) = {"stereo_wide", "sidechain_pump"}
  /\ content_tags # << >>
  /\ Len(result.meta_tags) = 2

\* The drums keyword order and the keyword's tag, as C6 states them.
C6_Order == <<"kick", "snare", "hi-hat", "drum", "percussion", "cymbal", "clap", "thunk">>
C6_Tag(kw) ==
  CASE kw = "kick" -> "kick"
    [] kw = "snare" -> "snare"
    [] kw \in {"hi-hat", "cymbal"} -> "hi-hat"
    [] kw = "clap" -> "clap"
    [] OTHER -> "perc_loop"
C6_Hits(lab_l) == {n \in 1..Len(C6_Order) : Contains(C6_Order[n], lab_l)}
C6_Expected(lab_l) ==
  C6_Tag(C6_Order[CHOOSE n \in C6_Hits(lab_l) : \A m \in C6_Hits(lab_l) : n <= m])

\* C6 (SpecMap): on a drums stem, a prediction whose lower-cased label is no
\* stop label and contains a drums keyword contributes exactly the tag of the
\* first matching keyword, max-aggregated into the map, and changes nothing
\* else; and [("kick drum", 0.9)] yields exactly {kick: 0.9}.
C6_DrumKeywordMapping ==
  /\ [][ ( /\ pc = "map" /\ i <= Len(preds) /\ stem_type = "drums"
           /\ Lower(preds[i][1]) \notin {"music"}
           /\ C6_Hits(Lower(preds[i][1])) # {} )
         => LET t == C6_Expected(Lower(preds[i][1]))
            IN  /\ Keys(coarse') = Keys(coarse) \cup {t}
                /\ Get(coarse', t, 0) = Max(Get(coarse, t, 0), preds[i][2])
                /\ \A u \in Keys(coarse) \ {t} : Get(coarse', u, 0) = Get(coarse, u, 0) ]_vars
  /\ []( ( /\ pc = "fallback" /\ stem_type = "drums"
           /\ preds = << <<"kick drum", 900>> >> )
         => coarse = << <<"kick", 900>> >> )

\* C6 witness: the mapper has returned {kick: 0.9} for [("kick drum", 0.9)] on drums.
C6_Witness ==
  /\ pc = "fallback" /\ stem_type = "drums"
  /\ preds = << <<"kick drum", 900>> >>
  /\ Keys(coarse) = {"kick"}

\* C7 (Spec): from label mapping to the addition of the meta tags, a tag that
\* has a score in the stem's dict is never removed and its score never lowered.
C7_NoScoreLowered ==
  [][ \A t \in Keys(coarse) :
        Has(coarse', t) /\ Get(coarse', t, 0) >= Get(coarse, t, 0) ]_vars

\* C7 witness: the fallback rule for kick (0.4) has run on a dict that already
\* held kick at 0.9, which is still 0.9.
C7_Witness ==
  /\ pc = "refine" /\ stem_type = "drums"
  /\ characteristics.centroid = 2200
  /\ Get(coarse, "kick", 0) = 900

\* the canonical stems of the clip that are readable stem files, in order
CanonicalOrder == <<"drums.wav", "bass.wav", "vocals.wav", "other.wav">>
IsStemFile(name) == clip_dir[name].kind = "file"
PresentStems == SelectSeq(CanonicalOrder, IsStemFile)
OnlyStemFiles == \A n \in 1..4 : clip_dir[CanonicalOrder[n]].kind \in {"absent", "file"}

\* C8 (SpecClip): when each of the four canonical entries is absent or a stem
\* file, tag_clip_folder raises no audio error, the results written hold
\* exactly one entry per present stem in the order drums, bass, vocals, other,
\* and the global sidechain sum was built from exactly those stems.
C8_ResultsFollowPresentStems ==
  OnlyStemFiles =>
    /\ exc # "MalformedAudio"
    /\ pc \in {"tag", "done"} => summed_audio.stems = PresentStems
    /\ (pc = "tag" /\ k > 4) \/ pc = "done" =>
         /\ Len(results) = Len(PresentStems)
         /\ \A n \in 1..Len(results) : results[n].file = StemPath(PresentStems[n])
    /\ pc = "done" => out_json[1].results = results

\* C8 witness: only drums.wav and bass.wav present: two results, a two-stem sum.
C8_Witness ==
  /\ pc = "done"
  /\ clip_dir["drums.wav"].kind = "file" /\ clip_dir["bass.wav"].kind = "file"
  /\ clip_dir["vocals.wav"].kind = "absent" /\ clip_dir["other.wav"].kind = "absent"
  /\ Len(out_json[1].results) = 2
  /\ summed_audio.stems = <<"drums.wav", "bass.wav">>

\* C9 (SpecClip): in a run of tag_clip_folder no StemAnalysis carries
\* sidechain_pump (each stem's meta tags are within {stereo_wide}); the
\* sidechain result appears once, in metadata.global_sidechain.
C9_PerStemSidechainSuppressed ==
  /\ \A n \in 1..Len(results) : \A m \in 1..Len(results[n].meta_tags) :
       results[n].meta_tags[m].label = "stereo_wide"
  /\ \A n \in 1..Len(results) : \A m \in 1..Len(results[n].content_tags) :
       results[n].content_tags[m].label # "sidechain_pump"
  /\ pc = "done" =>
       /\ "global_sidechain" \in DOMAIN out_json[1].metadata
       /\ out_json[1].metadata.global_sidechain.detected = global_sc[1]

\* C9 witness: a written clip whose global detector fired and which holds a
\* stem whose own waveform would trigger the detector.
C9_Witness ==
  /\ pc = "done"
  /\ out_json[1].metadata.global_sidechain.detected
  /\ \E n \in 1..4 :
       /\ clip_dir[CanonicalOrder[n]].kind = "file"
       /\ DetectSidechainPump(clip_dir[CanonicalOrder[n]].f.wave, SR)[1]

\* C10 (SpecClip): a stem file that cannot be loaded or analysed does not end
\* the run: the failure is recorded for that stem, the other present stems are
\* tagged and the artifact is written.
C10_StemFailureContained ==
  /\ ~(pc = "raised" /\ exc = "MalformedAudio")
  /\ pc = "done" =>
       Len(out_json[1].results) = Cardinality({n \in 1..4 : IsFile(clip_dir[CanonicalOrder[n]])})

\* What C11 states of the refiner: it fires when a raw label, lower-cased,
\* contains "synth", and then selects by centroid and stereo width.
C11_Fires == \E n \in 1..Len(preds) : Contains("synth", LabelLower[preds[n][1]])
C11_Selected ==
  IF centroid > 3000 /\ width > 250 THEN "saw_lead"
  ELSE IF centroid < 1200 THEN "synth_pad"
  ELSE "pluck"

\* C11 (Spec): the synth refinement step of tag_stem changes the tag dict
\* exactly when some raw label, lower-cased, contains "synth" (a capitalised
\* "Synthesizer" included); it then sets the selected tag (saw_lead if
\* centroid > 3000 and width > 0.25, else synth_pad if centroid < 1200, else
\* pluck) to max(existing, 0.5) and leaves every other tag alone.
C11_SynthRefinerFires ==
  [][ (pc = "refine" /\ pc' = "sidechain")
      => IF C11_Fires
         THEN coarse' = Put(coarse, C11_Selected, Max(Get(coarse, C11_Selected, 0), 500))
         ELSE coarse' = coarse ]_vars

\* Channel pairs as sf.read returns them: every correlation from -1 to 1.
C12_Channels ==
  [channels : {1, 2}, l_flat : BOOLEAN, r_flat : BOOLEAN,
   corr : {-1000, -500, 0, 600, 1000}]

\* C12 (Spec): the stereo_width of every StemAnalysis lies in [0, 1], for every
\* left/right correlation in [-1, 1]; it is 0 for a mono file and for
\* identical left and right channels.
C12_StereoWidthInUnitRange ==
  /\ pc = "done" => (result.stereo_width >= 0 /\ result.stereo_width <= 1000)
  /\ \A d \in C12_Channels :
       (d.channels = 1 \/ d.corr = 1000) => StereoWidthEstimate(d) = 0

\* The powers of the periodogram bins of y between 0.5 Hz and 4.0 Hz, the
\* largest of them, and twice their median.
C13_Bins == {n \in 1..Len(y.pxx) : y.pxx[n][1] >= 500 /\ y.pxx[n][1] <= 4000}
C13_Peak == CHOOSE v \in {y.pxx[n][2] : n \in C13_Bins} :
              \A n \in C13_Bins : y.pxx[n][2] <= v
C13_Lower(v) == Cardinality({n \in C13_Bins : y.pxx[n][2] < v})
C13_UpTo(v) == Cardinality({n \in C13_Bins : y.pxx[n][2] <= v})
C13_Nth(m) == CHOOSE v \in {y.pxx[n][2] : n \in C13_Bins} :
                C13_Lower(v) < m /\ C13_UpTo(v) >= m
C13_Median2 ==
  LET c == Cardinality(C13_Bins)
  IN  IF c % 2 = 1 THEN 2 * C13_Nth((c + 1) \div 2)
      ELSE C13_Nth(c \div 2) + C13_Nth(c \div 2 + 1)
\* the envelope spectrum is computed: a second of audio at least, an envelope
\* that varies, a bin inside the band
C13_Analysed == y.n >= SR /\ ~y.flat /\ C13_Bins # {}

\* what C13 states besides the threshold
C13_Reported ==
  /\ global_sc[1] => /\ global_sc[3] >= 500 /\ global_sc[3] <= 4000
                     /\ global_sc[2] <= 100000
  /\ y.flat => global_sc = <<FALSE, 0, NoneVal>>

\* C13 as stated (SpecPump): detected holds exactly when the peak power in
\* the 0.5-4.0 Hz band divided by the median power in the band exceeds 12;
\* when detected the peak frequency is within [0.5, 4.0] Hz and the
\* prominence at most 100; a constant envelope yields (False, 0.0, None).
C13_AsStated ==
  pc = "done" =>
    /\ global_sc[1] <=> (C13_Analysed /\ 2 * C13_Peak > 12 * C13_Median2)
    /\ C13_Reported

\* C13 amended (SpecPump): as C13, with the peak power divided by the median
\* power plus 1e-9.
C13_SidechainThreshold ==
  pc = "done" =>
    /\ global_sc[1] <=> (C13_Analysed /\ 2 * C13_Peak > 12 * (C13_Median2 + 2))
    /\ C13_Reported

\* C13 witness: a strong 2 Hz modulation is detected at 2 Hz, its prominence
\* reported as 100.
C13_Witness ==
  /\ pc = "done" /\ global_sc[1]
  /\ global_sc[3] = 2000 /\ global_sc[2] = 100000

C15_FirstIdx(patterns, lab_l) ==
  LET hits == {n \in 1..Len(patterns) : Contains(patterns[n], lab_l)}
  IN  IF hits = {} THEN 0 ELSE CHOOSE n \in hits : \A m \in hits : n <= m
C15_Patterns(table) == [n \in 1..Len(table) |-> table[n][1]]
C15_Tag(lab_l, st) ==
  LET kw   == C15_FirstIdx(STEM_KEYWORDS(st), lab_l)
      drum == C15_FirstIdx(C15_Patterns(DRUM_LABELS), lab_l)
      ins  == C15_FirstIdx(C15_Patterns(INSTRUMENT_LABELS), lab_l)
      gen  == C15_FirstIdx(C15_Patterns(AUDIOSET_TO_COARSE), lab_l)
  IN  IF lab_l \in STOP_LABELS THEN NoneVal
      ELSE IF kw # 0 THEN map_keyword_to_tag(STEM_KEYWORDS(st)[kw], st)
      ELSE IF st = "drums" /\ drum # 0 THEN DRUM_LABELS[drum][2]
      ELSE IF ins # 0 THEN INSTRUMENT_LABELS[ins][2]
      ELSE IF gen # 0 THEN AUDIOSET_TO_COARSE[gen][2]
      ELSE NoneVal
C15_TagOf == [lab \in MapLabels, st \in StemTypes |-> C15_Tag(LabelLower[lab], st)]

\* C15 (SpecMap): each prediction is resolved by the cascade keyword table,
\* then (drums only) drum labels, then instrument labels, then the general
\* table, the first matching entry of a table winning; it contributes that one
\* tag, max-aggregated, and nothing else; a stop label and a label matching
\* nowhere contribute nothing.
C15_StrictCascade ==
  [][ (pc = "map" /\ i' = i + 1)
      => LET tag == C15_TagOf[preds[i][1], stem_type]
         IN  IF tag = NoneVal THEN coarse' = coarse
             ELSE coarse' = Put(coarse, tag, Max(Get(coarse, tag, 0), preds[i][2])) ]_vars

\* C15 witness: on a drums stem the stop label "Music" has contributed
\* nothing and "Electric piano", which no keyword and no drum label matches,
\* was resolved by the first matching entry of the instrument table.
C15_Witness ==
  /\ pc = "map" /\ stem_type = "drums" /\ i > Len(preds)
  /\ preds = << <<"Music", 900>>, <<"Electric piano", 250>> >>
  /\ coarse = << <<"piano", 250>> >>

\* The rules as C16 states them: tag >= v is max(existing, v).
C16_AtLeast(d, tag, v) == Put(d, tag, Max(Get(d, tag, 0), v))
C16_Expected(d, c, onset, st) ==
  IF st = "drums"
  THEN LET t1 == IF c > 4000 THEN C16_AtLeast(d, "hi-hat", 600)
                 ELSE IF c > 2500 THEN C16_AtLeast(d, "snare", 500)
                 ELSE IF c > 1500 THEN C16_AtLeast(d, "kick", 400)
                 ELSE d
       IN  IF onset > 300 /\ Keys(t1) \cap {"kick", "snare", "hi-hat", "perc_loop"} = {}
           THEN Put(t1, "perc_loop", 500)
           ELSE t1
  ELSE IF st = "bass"
  THEN IF c < 2000 THEN C16_AtLeast(d, "sub_808", 600)
       ELSE C16_AtLeast(d, "synth_bass", 500)
  ELSE IF st = "other"
  THEN IF c > 3000 THEN C16_AtLeast(d, "saw_lead", 500)
       ELSE IF c < 1500 THEN C16_AtLeast(d, "synth_pad", 500)
       ELSE C16_AtLeast(d, "pluck", 400)
  ELSE d

\* C16 (SpecFallback): the fallback step applies, for drums, the first
\* satisfied rule of centroid > 4000 -> hi-hat >= 0.6, > 2500 -> snare >= 0.5,
\* > 1500 -> kick >= 0.4 and then sets perc_loop = 0.5 exactly when onset
\* strength > 0.3 and none of kick, snare, hi-hat, perc_loop is in the dict;
\* for bass centroid < 2000 -> sub_808 >= 0.6, else synth_bass >= 0.5; for
\* other centroid > 3000 -> saw_lead >= 0.5, < 1500 -> synth_pad >= 0.5, else
\* pluck >= 0.4; for vocals nothing; every other tag is left as it was.
C16_SpectralFallbackRules ==
  [][ (pc = "fallback" /\ pc' = "refine")
      => coarse' = C16_Expected(coarse, characteristics.centroid,
                                characteristics.onset_strength, stem_type) ]_vars

\* C16 witness: a drums stem with centroid exactly 2500 and onset strength
\* above 0.3 whose dict was empty: the third rule gave kick 0.4, and perc_loop
\* was not set.
C16_Witness ==
  /\ pc = "refine" /\ stem_type = "drums" /\ preds = << >>
  /\ characteristics.centroid = 2500 /\ characteristics.onset_strength = 301
  /\ coarse = << <<"kick", 400>> >>

\* The run C17 describes for the clip directory: the classifier, the global
\* sidechain, the stem files in canonical order, the artifact.
C17_IsFile(name) == clip_dir[name].kind \in {"corrupt", "no_sf", "file"}
C17_TagEvent(n) == "tag:" \o SelectSeq(CanonicalOrder, C17_IsFile)[n]
C17_Run ==
  <<"init", "global">>
  \o [n \in 1..Len(SelectSeq(CanonicalOrder, C17_IsFile)) |-> C17_TagEvent(n)]
  \o <<"write">>
C17_IsPrefix(s, r) == Len(s) <= Len(r) /\ \A n \in 1..Len(s) : s[n] = r[n]

\* C17 (SpecClip): in every run of tag_clip_folder the classifier is
\* initialised once, then the global sidechain result is computed, then the
\* present stems are tagged one at a time in canonical order with that
\* classifier instance, then the artifact is written once: what the run has
\* done is at every moment a prefix of that sequence and, when the run
\* returns, the whole of it; if the classifier cannot be initialised no stem
\* is tagged and nothing is written.
C17_EventOrder ==
  /\ [](C17_IsPrefix(events, C17_Run))
  /\ [](pc = "done" => (events = C17_Run /\ Len(out_json) = 1))
  /\ []((pc = "raised" /\ exc = "ClassifierUnavailable")
          => (events = << >> /\ results = << >> /\ out_json = << >>))
  /\ [][at' # at => (pc = "init_model" /\ at = NoneVal)]_vars
  /\ [][(pc = "tag" /\ results' # results) => (at = "AudioTagging" /\ at' = at)]_vars

\* C17 witness: a run over a clip with drums.wav and other.wav only has
\* returned.
C17_Witness ==
  /\ pc = "done"
  /\ events = <<"init", "global", "tag:drums.wav", "tag:other.wav", "write">>

\* The tag dict in the order of stages the specification gives: mapper, synth
\* refiner, fallback injector.
C18_RefinerFirst ==
  add_spectral_fallbacks(
    ApplySynthRefinement(map_audioset_to_coarse_stem_aware(preds, stem_type),
                         preds, centroid, width),
    characteristics, stem_type)
C18_AsMap(d) == {d[n] : n \in 1..Len(d)}

\* C18 (SpecFallback): for every stem type, mapped dict, centroid, width,
\* onset strength and raw labels, the refiner followed by the fallback gives
\* a tag dict with the same names and the same scores as the fallback
\* followed by the refiner, which is what tag_stem runs.
C18_SameNamesAndScores ==
  pc = "sidechain" => C18_AsMap(coarse) = C18_AsMap(C18_RefinerFirst)

\* C18 witness: on an other stem both steps have added a tag, the fallback
\* synth_pad and the refiner pluck, entered in that order.
C18_Witness ==
  /\ pc = "sidechain" /\ stem_type = "other" /\ centroid = 1200
  /\ preds = << <<"synth bass", 900>> >>
  /\ coarse = << <<"synth_bass", 900>>, <<"synth_pad", 500>>, <<"pluck", 500>> >>

\* C19 (SpecTop): the content_tags of every StemAnalysis of a bass stem or an
\* other stem, after sorting and truncation to the top 3, hold a tag of the
\* stem type's guaranteed set ({sub_808, synth_bass, reese} for bass,
\* {synth_pad, saw_lead, pluck} for other), whatever the raw predictions.
C19_GuaranteeSurvivesTruncation ==
  (pc = "done" /\ stem_type \in {"bass", "other"})
    => \E n \in 1..Len(result.content_tags) :
         result.content_tags[n].label \in GuaranteedSet(stem_type)

\* C20 (SpecCalib): smart_confidence_calibration preserves the ranking of
\* scores: of two tags that both pass the filter, the one with the lower or
\* equal input score has the lower or equal output score.
C20_RankingPreserved ==
  pc \in {"separate", "rank", "done"} =>
    \A a, b \in 1..Len(tags) :
      (tags[a][2] > 150 /\ tags[b][2] > 150 /\ tags[a][2] <= tags[b][2])
        => Get(calibrated, tags[a][1], 0) <= Get(calibrated, tags[b][1], 0)

\* What C21 states.  The tag a table lists for a key, and the tag C21 gives a
\* lower-cased label that is a key of the table it reaches (NoneVal where C21
\* says nothing: a stop label, a keyword match, a label that is no key).
C21_IsKey(table, key) == \E n \in 1..Len(table) : table[n][1] = key
C21_Listed(table, key) == table[CHOOSE n \in 1..Len(table) : table[n][1] = key][2]
C21_Tag(lab_l, st) ==
  LET kw   == C15_FirstIdx(STEM_KEYWORDS(st), lab_l)
      drum == C15_FirstIdx(C15_Patterns(DRUM_LABELS), lab_l)
      ins  == C15_FirstIdx(C15_Patterns(INSTRUMENT_LABELS), lab_l)
  IN  IF lab_l \in STOP_LABELS \/ kw # 0 THEN NoneVal
      ELSE IF st = "drums" /\ drum # 0
      THEN IF C21_IsKey(DRUM_LABELS, lab_l)
           THEN C21_Listed(DRUM_LABELS, lab_l) ELSE NoneVal
      ELSE IF ins # 0
      THEN IF C21_IsKey(INSTRUMENT_LABELS, lab_l)
           THEN C21_Listed(INSTRUMENT_LABELS, lab_l) ELSE NoneVal
      ELSE IF C21_IsKey(AUDIOSET_TO_COARSE, lab_l)
           THEN C21_Listed(AUDIOSET_TO_COARSE, lab_l) ELSE NoneVal
C21_TagOf == [lab \in MapLabels, st \in StemTypes |-> C21_Tag(LabelLower[lab], st)]

\* C21 (SpecMap): no table entry is shadowed: a label that, lower-cased, is a
\* key of DRUM_LABELS, INSTRUMENT_LABELS or AUDIOSET_TO_COARSE and reaches
\* that table (no earlier stage of the cascade matched it) contributes the tag
\* the table lists for that key ("electric piano" reaching INSTRUMENT_LABELS
\* gives rhodes, "snare drum" reaching AUDIOSET_TO_COARSE gives snare).
C21_NoEntryShadowed ==
  [][ (pc = "map" /\ i' = i + 1 /\ C21_TagOf[preds[i][1], stem_type] # NoneVal)
      => LET tag == C21_TagOf[preds[i][1], stem_type]
         IN  coarse' = Put(coarse, tag, Max(Get(coarse, tag, 0), preds[i][2])) ]_vars

\* C22 (SpecEntry): the sidechain strength is 1.0 whenever the detector
\* reports detected: a per-stem sidechain_pump tag has score 1.0 when it is
\* set and in the StemAnalysis (after calibration), where it is present
\* exactly when the per-stem detector ran and fired; the metadata block of
\* the artifact holds strength = 1.0 and frequency_hz exactly when detected
\* is true, and detected alone otherwise.
C22_StrengthDegenerate ==
  /\ (path # NoneVal /\ pc \in {"stereo", "calibrate", "done"})
       => /\ Has(coarse, "sidechain_pump")
               <=> (~global_sidechain /\ DetectSidechainPump(y, SR)[1])
          /\ Has(coarse, "sidechain_pump") => Get(coarse, "sidechain_pump", 0) = 1000
  /\ (path # NoneVal /\ pc = "done")
       => /\ (\E n \in 1..Len(result.meta_tags) :
                 result.meta_tags[n].label = "sidechain_pump")
               <=> (~global_sidechain /\ DetectSidechainPump(y, SR)[1])
          /\ \A n \in 1..Len(result.meta_tags) :
               result.meta_tags[n].label = "sidechain_pump"
                 => result.meta_tags[n].score = 1000
  /\ \A n \in 1..Len(out_json) :
       LET g == out_json[n].metadata.global_sidechain
       IN  /\ g.detected = global_sc[1]
           /\ IF g.detected
              THEN /\ DOMAIN g = {"detected", "strength", "frequency_hz"}
                   /\ g.strength = 1000
                   /\ g.frequency_hz = global_sc[3]
              ELSE DOMAIN g = {"detected"}

\* C22 witness: the clip's summed stems have a prominence of 13.6, just over
\* the threshold and under the clamp, and the artifact holds strength 1.0.
C22_Witness ==
  /\ pc = "done" /\ path = NoneVal /\ Len(out_json) = 1
  /\ global_sc[1] /\ global_sc[2] = 13636
  /\ out_json[1].metadata.global_sidechain.strength = 1000
  /\ out_json[1].metadata.global_sidechain.frequency_hz = 2000
=============================================================================
